---- MODULE Spec2Model ----
(***************************************************************************)
(* A model of pystackreg's StackReg class (src/pysrc/pystackreg.py): the   *)
(* conversion between TurboReg's short matrices and canonical 3x3          *)
(* matrices, the single-pair registrar (register, transform, get_matrix,   *)
(* set_matrix) and the stack operations (register_stack, transform_stack,  *)
(* running_mean).  The native engine (turboreg._register and               *)
(* turboreg._transform) is an external collaborator: each call either      *)
(* fails or returns one of a small set of results.                         *)
(*                                                                         *)
(* numpy indices are 0-based; TLA+ sequences are 1-based.  Index tuples    *)
(* and axis numbers keep numpy's 0-based values, and position d of a shape *)
(* or of an index tuple is axis d-1.                                       *)
(***************************************************************************)
EXTENDS Integers, Sequences, FiniteSets, TLC

VARIABLES
    transformation,   \* self._transformation
    is_registered,    \* self._is_registered
    m,                \* self._m: None or the short matrix
    refpts,           \* self._refpts
    movpts,           \* self._movpts
    tmats,            \* self._tmats: None or the sequence of 3x3 matrices
    pc,               \* "idle", or "loop" inside register_stack's for loop
    call,             \* the arguments of the operation in progress or last run
    loc,              \* register_stack's locals: img, ref, i, idx_start
    log,              \* history: the engine calls of the operation in progress or last run
    result,           \* outcome of the last finished operation
    registered_ok,    \* history: some register() call has returned normally
    conv              \* the converter round trip under test (SpecConv)

vars == <<transformation, is_registered, m, refpts, movpts, tmats, pc, call,
          loc, log, result, registered_ok, conv>>

----------------------------------------------------------------------------
(* Bounds of the model *)

\* largest frame count of an input stack along the registration axis
MaxFrames == 3
\* largest moving_average window
MaxWindow == 2
\* largest n_frames
MaxNFrames == 2
\* spatial side length of the frames of a stack
Side == 2
\* matrix entries of the converter round trip range over -MaxEntry..MaxEntry
MaxEntry == 1

----------------------------------------------------------------------------
(* Python values *)

None == <<>>
Some(v) == <<v>>
IsNone(o) == o = <<>>
Val(o) == o[1]

\* the outcome of a call: an exception, or a returned value
Raise(e) == [exc |-> Some(e), val |-> None]
Return(v) == [exc |-> None, val |-> Some(v)]
Raised(r) == ~IsNone(r.exc)

RegisterFirst == "Register first"
BilinearNotSupported == "Bilinear transformation matrix not supported"
UnexpectedTransformation == "Unexpected transformation"
ThreeDimensions == "Stack must have three dimensions"
LengthMismatch == "Number of saved transformation matrices does not match stack length"
\* exceptions Python or numpy raise on their own
TypeError == "TypeError"
AttributeError == "AttributeError"
UnboundLocalError == "UnboundLocalError"
IndexError == "IndexError"
ValueError == "ValueError"
\* a failure of the native engine
EngineError == "EngineError"

----------------------------------------------------------------------------
(* Transformation families *)

TRANSLATION == 2
RIGID_BODY == 3
SCALED_ROTATION == 4
AFFINE == 6
BILINEAR == 8

valid_transformations == {TRANSLATION, RIGID_BODY, SCALED_ROTATION, AFFINE, BILINEAR}

----------------------------------------------------------------------------
(* Matrices: a matrix is the sequence of its rows *)

Identity3 == <<<<1, 0, 0>>, <<0, 1, 0>>, <<0, 0, 1>>>>

\* np.matmul of two 3x3 matrices
MatMul(a, b) ==
    [r \in 1..3 |-> [c \in 1..3 |->
        a[r][1] * b[1][c] + a[r][2] * b[2][c] + a[r][3] * b[3][c]]]

\* m[:, cols] for a 2-row matrix: column j of the result is column cols[j]
\* (0-based) of mat
TakeColumns(mat, cols) ==
    [r \in 1..2 |-> [j \in 1..Len(cols) |-> mat[r][cols[j] + 1]]]

\* _matrix_short_to_long: TurboReg's short matrix to the canonical 3x3 matrix
matrix_short_to_long(t, mat) ==
    IF t = TRANSLATION THEN
        IF IsNone(mat) THEN Raise(TypeError)
        ELSE Return(<<<<1, 0, Val(mat)[1][1]>>,
                      <<0, 1, Val(mat)[2][1]>>,
                      <<0, 0, 1>>>>)
    ELSE IF t \in {RIGID_BODY, SCALED_ROTATION, AFFINE} THEN
        IF IsNone(mat) THEN Raise(TypeError)
        ELSE Return(<<TakeColumns(Val(mat), <<1, 2, 0>>)[1],
                      TakeColumns(Val(mat), <<1, 2, 0>>)[2],
                      <<0, 0, 1>>>>)
    ELSE IF t = BILINEAR THEN Raise(BilinearNotSupported)
    ELSE Raise(UnexpectedTransformation)

\* a plausible slip: the column order of the other direction
matrix_long_to_short_samecols(t, mat) ==
    IF t = TRANSLATION THEN Return(<<<<mat[1][3]>>, <<mat[2][3]>>>>)
    ELSE IF t \in {RIGID_BODY, SCALED_ROTATION, AFFINE} THEN
        Return(TakeColumns(<<mat[1], mat[2]>>, <<1, 2, 0>>))
    ELSE IF t = BILINEAR THEN Raise(BilinearNotSupported)
    ELSE Raise(UnexpectedTransformation)

\* _matrix_long_to_short: the canonical 3x3 matrix to TurboReg's short matrix
matrix_long_to_short(t, mat) ==
    IF t = TRANSLATION THEN Return(<<<<mat[1][3]>>, <<mat[2][3]>>>>)
    ELSE IF t \in {RIGID_BODY, SCALED_ROTATION, AFFINE} THEN
        Return(TakeColumns(<<mat[1], mat[2]>>, <<2, 0, 1>>))
    ELSE IF t = BILINEAR THEN Raise(BilinearNotSupported)
    ELSE Raise(UnexpectedTransformation)

----------------------------------------------------------------------------
(* Pixel values: exact rationals <<numerator, denominator>> in lowest terms *)
(* with a positive denominator; NaN is what numpy's mean of nothing gives   *)

RECURSIVE Gcd(_, _)
Gcd(a, b) == IF b = 0 THEN a ELSE Gcd(b, a % b)

Abs(a) == IF a < 0 THEN -a ELSE a

NaN == <<0, 0>>

Q(n, d) ==
    IF d = 0 THEN NaN
    ELSE LET g == Gcd(Abs(n), Abs(d))
             s == IF d < 0 THEN -1 ELSE 1
         IN  <<s * (n \div g), s * (d \div g)>>

QAdd(a, b) == IF a = NaN \/ b = NaN THEN NaN
              ELSE Q(a[1] * b[2] + b[1] * a[2], a[2] * b[2])
QSub(a, b) == IF a = NaN \/ b = NaN THEN NaN
              ELSE Q(a[1] * b[2] - b[1] * a[2], a[2] * b[2])
\* a / float(k)
QDiv(a, k) == IF a = NaN THEN NaN ELSE Q(a[1], a[2] * k)

----------------------------------------------------------------------------
(* numpy arrays: a shape and a value for every index tuple of the shape *)

Max2(a, b) == IF a > b THEN a ELSE b

RECURSIVE MaxOf(_)
MaxOf(s) == IF Len(s) = 0 THEN 0 ELSE Max2(Head(s), MaxOf(Tail(s)))

\* the index tuples of an array of this shape (none when a dimension is 0)
Indices(shape) ==
    IF Len(shape) = 2
    THEN {<<a, b>> : a \in 0..(shape[1] - 1), b \in 0..(shape[2] - 1)}
    ELSE IF Len(shape) = 3
    THEN {<<a, b, c>> : a \in 0..(shape[1] - 1), b \in 0..(shape[2] - 1),
                        c \in 0..(shape[3] - 1)}
    ELSE {f \in [1..Len(shape) -> 0..(MaxOf(shape) - 1)] :
             \A d \in 1..Len(shape) : f[d] < shape[d]}

Array(shape, f(_)) == [shape |-> shape, val |-> [idx \in Indices(shape) |-> f(idx)]]

ndim(arr) == Len(arr.shape)

RemoveAt(s, d) == [j \in 1..(Len(s) - 1) |-> IF j < d THEN s[j] ELSE s[j + 1]]
InsertAt(s, d, v) ==
    [j \in 1..(Len(s) + 1) |-> IF j < d THEN s[j] ELSE IF j = d THEN v ELSE s[j - 1]]
SetAt(s, d, v) == [s EXCEPT ![d] = v]

\* sum of f(0) .. f(n-1); the sum of no terms is 0
RECURSIVE QSum(_, _)
QSum(f(_), n) == IF n <= 0 THEN Q(0, 1) ELSE QAdd(QSum(f, n - 1), f(n - 1))

\* arr[..., i, ...] with the scalar index i on `axis`; a negative index counts
\* from the end, an index out of range raises IndexError
Frame(arr, i, axis) ==
    LET n == arr.shape[axis + 1]
        k == IF i < 0 THEN i + n ELSE i
    IN  IF k < 0 \/ k >= n THEN Raise(IndexError)
        ELSE Return(Array(RemoveAt(arr.shape, axis + 1),
                          LAMBDA idx : arr.val[InsertAt(idx, axis + 1, k)]))

\* simple_slice(arr, inds, axis) with an integer inds
simple_slice(arr, inds, axis) == Frame(arr, inds, axis)

\* arr.take(i, axis=axis) with an integer i
take(arr, i, axis) == Frame(arr, i, axis)

\* arr.take(range(n), axis=axis)
take_range(arr, n, axis) ==
    IF n > arr.shape[axis + 1] THEN Raise(IndexError)
    ELSE Return(Array(SetAt(arr.shape, axis + 1, n), LAMBDA idx : arr.val[idx]))

\* np.mean(arr, axis=axis): elementwise mean along one axis
mean(arr, axis) ==
    LET n == arr.shape[axis + 1]
    IN  Array(RemoveAt(arr.shape, axis + 1),
              LAMBDA idx :
                  IF n = 0 THEN NaN
                  ELSE QDiv(QSum(LAMBDA k : arr.val[InsertAt(idx, axis + 1, k)], n), n))

\* np.pad(arr, pad_width, 'edge') with pad_width[axis] = [before, after]
pad_edge(arr, axis, before, after) ==
    LET n == arr.shape[axis + 1]
        Clamp(k) == IF k < before THEN 0
                    ELSE IF k >= before + n THEN n - 1 ELSE k - before
    IN  Array(SetAt(arr.shape, axis + 1, n + before + after),
              LAMBDA idx : arr.val[SetAt(idx, axis + 1, Clamp(idx[axis + 1]))])

\* np.cumsum(arr, axis=axis)
cumsum(arr, axis) ==
    Array(arr.shape,
          LAMBDA idx : QSum(LAMBDA k : arr.val[SetAt(idx, axis + 1, k)],
                            idx[axis + 1] + 1))

\* (c[N:] - c[:-N]) / float(N): both slices cut the FIRST axis of c
SlidingDifference(c, N) ==
    LET rows == Max2(c.shape[1] - N, 0)
    IN  Array(SetAt(c.shape, 1, rows),
              LAMBDA idx : QDiv(QSub(c.val[SetAt(idx, 1, idx[1] + N)], c.val[idx]), N))

\* running_mean(x, N, axis)
running_mean(x, N, axis) ==
    SlidingDifference(cumsum(pad_edge(x, axis, (N + 1) \div 2, N \div 2), axis), N)

\* a[:-1, :-1] of a 2-D array
CropLast(a) ==
    Array(<<Max2(a.shape[1] - 1, 0), Max2(a.shape[2] - 1, 0)>>,
          LAMBDA idx : a.val[idx])

\* the input images of the model: pixel (i, j, ..) has the value whose decimal
\* digits are i, j, ..
RECURSIVE Digits(_)
Digits(idx) ==
    IF Len(idx) = 0 THEN 0
    ELSE 10 * Digits(SubSeq(idx, 1, Len(idx) - 1)) + idx[Len(idx)]

Ramp(shape) == Array(shape, LAMBDA idx : Q(Digits(idx), 1))

----------------------------------------------------------------------------
(* The native engine, an external collaborator *)

\* short matrices the engine may return: 2x1 for a translation, 2x3 with the
\* translation in column 0 for the rigid-body, scaled-rotation and affine
\* families (a quarter turn shifted by (1,0), and a shift by (0,2): two matrices
\* whose canonical forms do not commute), 2x4 for the bilinear family
ShortMatrices(t) ==
    IF t = TRANSLATION THEN {<<<<1>>, <<0>>>>, <<<<0>>, <<2>>>>}
    ELSE IF t = BILINEAR THEN {<<<<1, 1, 0, 0>>, <<0, 0, 1, 0>>>>,
                               <<<<0, 1, 0, 1>>, <<2, 0, 1, 0>>>>}
    ELSE {<<<<1, 0, -1>>, <<0, 1, 0>>>>, <<<<0, 1, 0>>, <<2, 0, 1>>>>}

\* turboreg._register(ref, mov, transformation): fails, or returns a short
\* matrix and the two point sets
EngineRegister(t) ==
    {Raise(EngineError)} \cup
    {Return([m |-> k,
             refpts |-> <<<<0, 0>>>>,
             movpts |-> <<<<k[1][1], k[2][1]>>>>]) : k \in ShortMatrices(t)}

\* turboreg._transform(mov, tmat): fails, or returns the warped image
EngineTransform(mov, tmat, ok) ==
    IF ok THEN Return([warped |-> mov, by |-> tmat]) ELSE Raise(EngineError)

----------------------------------------------------------------------------
(* The registrar: self is the record of the instance's fields *)

Self == [transformation |-> transformation, is_registered |-> is_registered,
         m |-> m, refpts |-> refpts, movpts |-> movpts, tmats |-> tmats]

SetSelf(s) ==
    /\ transformation' = s.transformation
    /\ is_registered' = s.is_registered
    /\ m' = s.m
    /\ refpts' = s.refpts
    /\ movpts' = s.movpts
    /\ tmats' = s.tmats

\* __init__(transformation)
Construct(t) ==
    [transformation |-> t, is_registered |-> FALSE, m |-> None,
     refpts |-> None, movpts |-> None, tmats |-> None]

\* get_matrix()
get_matrix(s) == matrix_short_to_long(s.transformation, s.m)

\* set_matrix(mat)
set_matrix(s, mat) ==
    LET r == matrix_long_to_short(s.transformation, mat)
    IN  IF Raised(r) THEN [self |-> s, out |-> r]
        ELSE [self |-> [s EXCEPT !.m = Some(Val(r.val))], out |-> Return(None)]

\* register(ref, mov); eng is what turboreg._register does with the cropped
\* images
register(s, ref, mov, eng) ==
    LET s1 == [s EXCEPT !.is_registered = TRUE]
        args == [fn |-> "_register", ref |-> CropLast(ref), mov |-> CropLast(mov),
                 transformation |-> s.transformation, ok |-> ~Raised(eng)]
    IN  IF Raised(eng) THEN [self |-> s1, out |-> eng, engine |-> args]
        ELSE LET s2 == [s1 EXCEPT !.m = Some(Val(eng.val).m),
                                  !.refpts = Some(Val(eng.val).refpts),
                                  !.movpts = Some(Val(eng.val).movpts)]
             IN  [self |-> s2, out |-> get_matrix(s2), engine |-> args]

\* transform(mov, tmat=None); ok is whether turboreg._transform succeeds.
\* engine is None when the engine was not called
transform(s, mov, tmat, ok) ==
    IF IsNone(tmat) /\ ~s.is_registered
    THEN [out |-> Raise(RegisterFirst), engine |-> None]
    ELSE LET short == IF ~IsNone(tmat)
                      THEN matrix_long_to_short(s.transformation, Val(tmat))
                      ELSE Return(s.m)
         IN  IF Raised(short) THEN [out |-> short, engine |-> None]
             ELSE LET arg == IF ~IsNone(tmat) THEN Some(Val(short.val))
                             ELSE s.m
                  IN  [out |-> EngineTransform(mov, arg, ok),
                       engine |-> Some([fn |-> "_transform", mov |-> mov,
                                        tmat |-> arg, ok |-> ok])]

----------------------------------------------------------------------------
(* Inputs of the single-pair operations *)

Flat(shape, v) == Array(shape, LAMBDA idx : Q(v, 1))

Images2D == {Ramp(<<Side, Side>>), Flat(<<Side, Side>>, 7)}

\* canonical matrices a caller may supply: the identity, a quarter turn
\* shifted by (1,0), a shift by (0,2)
CanonicalInputs ==
    {Identity3,
     <<<<0, -1, 1>>, <<1, 0, 0>>, <<0, 0, 1>>>>,
     <<<<1, 0, 0>>, <<0, 1, 2>>, <<0, 0, 1>>>>}

NoLoc == None
NoConv == None

InitRegistrar ==
    /\ \E t \in valid_transformations : 
          /\ transformation = t
          /\ is_registered = Construct(t).is_registered
          /\ m = Construct(t).m
          /\ refpts = Construct(t).refpts
          /\ movpts = Construct(t).movpts
          /\ tmats = Construct(t).tmats
    /\ pc = "idle"
    /\ call = [op |-> "__init__"]
    /\ loc = NoLoc
    /\ log = <<>>
    /\ result = Return(None)
    /\ registered_ok = FALSE

Init == InitRegistrar /\ conv = NoConv

(* The single-pair operations as actions *)

Register ==
    /\ pc = "idle"
    /\ \E ref \in Images2D, mov \in Images2D, eng \in EngineRegister(transformation) :
          LET r == register(Self, ref, mov, eng)
          IN  /\ SetSelf(r.self)
              /\ call' = [op |-> "register", ref |-> ref, mov |-> mov]
              /\ log' = <<r.engine>>
              /\ result' = r.out
              /\ registered_ok' = (registered_ok \/ ~Raised(r.out))
    /\ UNCHANGED <<pc, loc, conv>>

Transform ==
    /\ pc = "idle"
    /\ \E mov \in Images2D, tmat \in {None} \cup {Some(c) : c \in CanonicalInputs},
          ok \in BOOLEAN :
          LET r == transform(Self, mov, tmat, ok)
          IN  /\ call' = [op |-> "transform", mov |-> mov, tmat |-> tmat]
              /\ log' = IF IsNone(r.engine) THEN <<>> ELSE <<Val(r.engine)>>
              /\ result' = r.out
    /\ UNCHANGED <<transformation, is_registered, m, refpts, movpts, tmats, pc,
                   loc, registered_ok, conv>>

GetMatrix ==
    /\ pc = "idle"
    /\ call' = [op |-> "get_matrix"]
    /\ log' = <<>>
    /\ result' = get_matrix(Self)
    /\ UNCHANGED <<transformation, is_registered, m, refpts, movpts, tmats, pc,
                   loc, registered_ok, conv>>

SetMatrix ==
    /\ pc = "idle"
    /\ \E mat \in CanonicalInputs :
          LET r == set_matrix(Self, mat)
          IN  /\ SetSelf(r.self)
              /\ call' = [op |-> "set_matrix", mat |-> mat]
              /\ log' = <<>>
              /\ result' = r.out
    /\ UNCHANGED <<pc, loc, registered_ok, conv>>

Next == Register \/ Transform \/ GetMatrix \/ SetMatrix

Spec == Init /\ [][Next]_vars

----------------------------------------------------------------------------
(* register_stack *)

ReferenceModes == {"previous", "first", "mean"}

\* np.repeat(np.identity(3).reshape((1,3,3)), n, axis=0)
IdentityStack(n) == [j \in 1..n |-> Identity3]

\* register_stack up to its for loop: the dimension check, the moving
\* average, the fresh matrix stack and the static reference.  out is None when
\* the loop is entered
register_stack_enter(s, img, reference, n_frames, axis, moving_average) ==
    IF ndim(img) # 3
    THEN [self |-> s, out |-> Raise(ThreeDimensions), loc |-> NoLoc]
    ELSE LET start1 == IF moving_average > 1 THEN 0 ELSE 1
             work == IF moving_average > 1
                     THEN running_mean(img, moving_average, axis)
                     ELSE img
             s1 == [s EXCEPT !.tmats = Some(IdentityStack(work.shape[axis + 1]))]
             firsts == take_range(work, n_frames, axis)
         IN  IF reference = "first" /\ Raised(firsts)
             THEN [self |-> s1, out |-> firsts, loc |-> NoLoc]
             ELSE [self |-> s1,
                   out |-> None,
                   loc |-> [img |-> work,
                            ref |-> IF reference = "first"
                                    THEN Some(mean(Val(firsts.val), axis))
                                    ELSE IF reference = "mean"
                                    THEN Some(mean(work, 0))
                                    ELSE None,
                            idx_start |-> IF reference = "mean" THEN 0 ELSE start1,
                            i |-> IF reference = "mean" THEN 0 ELSE start1]]

\* a plausible slip: the operands of the product the other way round
compose_swapped(reference, i, tm) ==
    IF reference = "previous" /\ i > 0
    THEN [tm EXCEPT ![i + 1] = MatMul(tm[i], tm[i + 1])]
    ELSE tm

\* the composition that ends an iteration: under 'previous' and i > 0,
\* tmats[i] = matmul(tmats[i], tmats[i-1])
compose(reference, i, tm) ==
    IF reference = "previous" /\ i > 0
    THEN [tm EXCEPT ![i + 1] = MatMul(tm[i + 1], tm[i])]
    ELSE tm

\* one iteration of register_stack's loop, for frame l.i; eng is what the
\* engine does if it is called.  out is None when the iteration completes
register_stack_frame(s, reference, axis, l, eng) ==
    LET ref == IF reference = "previous"
               THEN Some(Val(take(l.img, l.i - 1, axis).val))
               ELSE l.ref
        mov == Val(simple_slice(l.img, l.i, axis).val)
    IN  IF IsNone(ref)
        THEN [self |-> s, out |-> Raise(UnboundLocalError), loc |-> l, entry |-> None]
        ELSE LET r == register(s, Val(ref), mov, eng)
                 entry == [i |-> l.i, ref |-> Val(ref), mov |-> mov, out |-> r.out]
             IN  IF Raised(r.out)
                 THEN [self |-> r.self, out |-> r.out, loc |-> [l EXCEPT !.ref = ref],
                       entry |-> Some(entry)]
                 ELSE [self |-> [r.self EXCEPT !.tmats =
                                    Some(compose(reference, l.i,
                                        [Val(r.self.tmats) EXCEPT ![l.i + 1] = Val(r.out.val)]))],
                       out |-> None,
                       loc |-> [l EXCEPT !.ref = ref, !.i = l.i + 1],
                       entry |-> Some(entry)]

(* Inputs of the stack operations *)

\* the shape of a stack of n frames of Side x Side pixels along `axis`
StackShape(n, axis) == [d \in 1..3 |-> IF d = axis + 1 THEN n ELSE Side]

\* arrays that are no stacks: a 2-D image and a 4-D array
NonStacks == {Ramp(<<Side, Side>>), Ramp(<<1, Side, Side, Side>>)}

\* reference values a caller may pass, one of them not a reference mode
ReferenceInputs == ReferenceModes \cup {"last"}

\* the arguments of a register_stack call: a stack of 1..MaxFrames frames along
\* any axis with every combination of the other arguments, or an array that is
\* no stack with the default n_frames and axis
RegisterStackInputs ==
    {[img |-> Ramp(StackShape(n, axis)), reference |-> reference,
      n_frames |-> n_frames, axis |-> axis, moving_average |-> moving_average] :
        n \in 1..MaxFrames, axis \in 0..2, reference \in ReferenceInputs,
        n_frames \in 1..MaxNFrames, moving_average \in 1..MaxWindow}
    \cup
    [img : NonStacks, reference : {"previous", "last"}, n_frames : {1},
     axis : {0}, moving_average : {1, MaxWindow}]

\* calls with the default n_frames, axis and moving_average
DefaultInputs ==
    {a \in RegisterStackInputs : a.n_frames = 1 /\ a.axis = 0 /\ a.moving_average = 1}

\* a register_stack call with arguments from `inputs`, up to the for loop; the
\* model follows a registrar through its first stack registration
RegisterStackCall(inputs) ==
    /\ pc = "idle"
    /\ IsNone(tmats)
    /\ \E a \in inputs :
          LET r == register_stack_enter(Self, a.img, a.reference, a.n_frames, a.axis,
                                        a.moving_average)
          IN  /\ SetSelf(r.self)
              /\ call' = [op |-> "register_stack", img |-> a.img,
                          reference |-> a.reference, n_frames |-> a.n_frames,
                          axis |-> a.axis, moving_average |-> a.moving_average]
              /\ loc' = r.loc
              /\ log' = <<>>
              /\ pc' = IF IsNone(r.out) THEN "loop" ELSE "idle"
              /\ result' = IF IsNone(r.out) THEN None ELSE r.out
    /\ UNCHANGED <<registered_ok, conv>>

RegisterStackBegin == RegisterStackCall(RegisterStackInputs)

RegisterStackBeginDefaults == RegisterStackCall(DefaultInputs)

RegisterStackFrame ==
    /\ pc = "loop"
    /\ loc.i < loc.img.shape[call.axis + 1]
    /\ \E eng \in EngineRegister(transformation) :
          LET r == register_stack_frame(Self, call.reference, call.axis, loc, eng)
          IN  /\ SetSelf(r.self)
              /\ loc' = r.loc
              /\ log' = IF IsNone(r.entry) THEN log ELSE Append(log, Val(r.entry))
              /\ pc' = IF IsNone(r.out) THEN "loop" ELSE "idle"
              /\ result' = IF IsNone(r.out) THEN None ELSE r.out
              /\ registered_ok' = (registered_ok \/
                                   (~IsNone(r.entry) /\ ~Raised(Val(r.entry).out)))
    /\ UNCHANGED <<call, conv>>

\* the loop is over: return self._tmats
RegisterStackReturn ==
    /\ pc = "loop"
    /\ loc.i >= loc.img.shape[call.axis + 1]
    /\ pc' = "idle"
    /\ result' = Return(Val(tmats))
    /\ UNCHANGED <<transformation, is_registered, m, refpts, movpts, tmats, call,
                   loc, log, registered_ok, conv>>

NextStack == RegisterStackBegin \/ RegisterStackFrame \/ RegisterStackReturn

SpecStack == Init /\ [][NextStack]_vars

----------------------------------------------------------------------------
(* transform_stack *)

Min2(a, b) == IF a < b THEN a ELSE b

\* whether numpy can assign an array of shape `value` to a slice of shape
\* `target`: the value's dimensions, aligned at the end, must each be the
\* target's or 1
CanAssign(value, target) ==
    /\ Len(value) <= Len(target)
    /\ \A d \in 1..Len(value) :
          value[d] = target[Len(target) - Len(value) + d] \/ value[d] = 1

\* transform_stack(img, axis, tmats=None); the engine fails on frame fail_at
\* (on none when fail_at is no frame index).  log lists the engine calls made
transform_stack(s, img, axis, tm_arg, fail_at) ==
    LET tm == IF IsNone(tm_arg) THEN s.tmats ELSE tm_arg
        n == img.shape[axis + 1]
    IN  IF IsNone(tm) THEN [out |-> Raise(AttributeError), log |-> <<>>]
        ELSE IF Len(Val(tm)) # n THEN [out |-> Raise(LengthMismatch), log |-> <<>>]
        ELSE LET step(i) == transform(s, Val(simple_slice(img, i, axis).val),
                                      Some(Val(tm)[i + 1]), i # fail_at)
                 \* out[slc] = <the warped frame>, slc cutting one index of `axis`
                 stored(i) ==
                     IF Raised(step(i).out) THEN step(i).out
                     ELSE IF ~CanAssign(Val(step(i).out.val).warped.shape,
                                        SetAt(img.shape, axis + 1, 1))
                     THEN Raise(ValueError)
                     ELSE step(i).out
                 bad == {i \in 0..(n - 1) : Raised(stored(i))}
                 stop == IF bad = {} THEN n
                         ELSE CHOOSE i \in bad : \A j \in bad : i <= j
                 ncalls == IF stop < n /\ IsNone(step(stop).engine)
                           THEN stop ELSE Min2(stop + 1, n)
             IN  [out |-> IF stop < n THEN stored(stop)
                          ELSE Return([j \in 1..n |-> Val(stored(j - 1).val)]),
                  log |-> [j \in 1..ncalls |->
                              [i |-> j - 1, engine |-> Val(step(j - 1).engine)]]]

\* matrix stacks a caller may supply: one for each length up to MaxFrames
SuppliedStack(k) ==
    [j \in 1..k |-> IF j % 2 = 1
                    THEN <<<<0, -1, 1>>, <<1, 0, 0>>, <<0, 0, 1>>>>
                    ELSE <<<<1, 0, 0>>, <<0, 1, 2>>, <<0, 0, 1>>>>]

\* a transform_stack call; it leaves the registrar as it is, so a second call
\* in a row would start from the same registrar and is not explored
TransformStack ==
    /\ pc = "idle"
    /\ call.op # "transform_stack"
    /\ \E n \in 1..MaxFrames, axis \in 0..2,
          tm_arg \in {None} \cup {Some(SuppliedStack(k)) : k \in 1..MaxFrames} :
          \E fail_at \in -1..(n - 1) :
             LET img == Ramp(StackShape(n, axis))
                 r == transform_stack(Self, img, axis, tm_arg, fail_at)
             IN  /\ call' = [op |-> "transform_stack", img |-> img, axis |-> axis,
                             tmats |-> tm_arg]
                 /\ log' = r.log
                 /\ result' = r.out
    /\ loc' = NoLoc
    /\ UNCHANGED <<transformation, is_registered, m, refpts, movpts, tmats, pc,
                   registered_ok, conv>>

NextApply ==
    RegisterStackBeginDefaults \/ RegisterStackFrame \/ RegisterStackReturn \/ TransformStack

SpecApply == Init /\ [][NextApply]_vars

----------------------------------------------------------------------------
(* The converters on their own: a matrix is converted one way and back *)

Entries == (0 - MaxEntry)..MaxEntry

\* canonical matrices valid for a family: bottom row [0,0,1] and, for a
\* translation, the identity as linear part
CanonicalMatrices(t) ==
    IF t = TRANSLATION
    THEN {<<<<1, 0, x>>, <<0, 1, y>>, <<0, 0, 1>>>> : x \in Entries, y \in Entries}
    ELSE IF t = BILINEAR THEN CanonicalInputs
    ELSE {<<r1, r2, <<0, 0, 1>>>> : r1 \in Entries \X Entries \X Entries,
                                     r2 \in Entries \X Entries \X Entries}

\* short matrices of a family
CompactMatrices(t) ==
    IF t = TRANSLATION THEN {<<<<x>>, <<y>>>> : x \in Entries, y \in Entries}
    ELSE IF t = BILINEAR THEN ShortMatrices(BILINEAR)
    ELSE {<<r1, r2>> : r1 \in Entries \X Entries \X Entries,
                       r2 \in Entries \X Entries \X Entries}

InitConv ==
    /\ InitRegistrar
    /\ conv \in [kind : {"canonical"}, input : CanonicalMatrices(transformation),
                 mid : {None}, back : {None}]
          \cup  [kind : {"compact"}, input : CompactMatrices(transformation),
                 mid : {None}, back : {None}]

\* the matrix the next conversion applies to and the field its outcome goes to
ConvStage(kind) ==
    IF conv.kind = kind /\ IsNone(conv.mid) THEN Some([arg |-> conv.input, to |-> "mid"])
    ELSE IF conv.kind # kind /\ ~IsNone(conv.mid) /\ ~Raised(Val(conv.mid))
            /\ IsNone(conv.back)
    THEN Some([arg |-> Val(Val(conv.mid).val), to |-> "back"])
    ELSE None

ToCompact ==
    /\ ~IsNone(ConvStage("canonical"))
    /\ LET st == Val(ConvStage("canonical"))
           r == matrix_long_to_short(transformation, st.arg)
       IN  conv' = IF st.to = "mid" THEN [conv EXCEPT !.mid = Some(r)]
                   ELSE [conv EXCEPT !.back = Some(r)]
    /\ UNCHANGED <<transformation, is_registered, m, refpts, movpts, tmats, pc,
                   call, loc, log, result, registered_ok>>

ToCanonical ==
    /\ ~IsNone(ConvStage("compact"))
    /\ LET st == Val(ConvStage("compact"))
           r == matrix_short_to_long(transformation, Some(st.arg))
       IN  conv' = IF st.to = "mid" THEN [conv EXCEPT !.mid = Some(r)]
                   ELSE [conv EXCEPT !.back = Some(r)]
    /\ UNCHANGED <<transformation, is_registered, m, refpts, movpts, tmats, pc,
                   call, loc, log, result, registered_ok>>

NextConv == ToCompact \/ ToCanonical

SpecConv == InitConv /\ [][NextConv]_vars

----------------------------------------------------------------------------
(* Properties of the converters (SpecConv) *)

\* C9: for Translation, RigidBody, ScaledRotation and Affine the converters
\* are a round trip: a valid canonical matrix converted to the short form and
\* back is the matrix itself, a short matrix converted to the canonical form
\* and back is the matrix itself, no conversion fails, and canonical columns
\* (0,1,2) are short columns (1,2,0) (short columns (0,1,2) are canonical
\* columns (2,0,1)).
C9_RoundTrip ==
    transformation \in {TRANSLATION, RIGID_BODY, SCALED_ROTATION, AFFINE} =>
        /\ ~IsNone(conv.mid) => ~Raised(Val(conv.mid))
        /\ ~IsNone(conv.back) => Val(conv.back) = Return(conv.input)
        /\ (transformation # TRANSLATION /\ conv.kind = "compact" /\ ~IsNone(conv.mid)) =>
              LET canonical == Val(Val(conv.mid).val)
              IN  /\ \A r \in 1..2 :
                        /\ canonical[r][1] = conv.input[r][2]
                        /\ canonical[r][2] = conv.input[r][3]
                        /\ canonical[r][3] = conv.input[r][1]
                  /\ canonical[3] = <<0, 0, 1>>
        /\ (transformation # TRANSLATION /\ conv.kind = "canonical" /\ ~IsNone(conv.mid)) =>
              LET short == Val(Val(conv.mid).val)
              IN  \A r \in 1..2 :
                     /\ short[r][1] = conv.input[r][3]
                     /\ short[r][2] = conv.input[r][1]
                     /\ short[r][3] = conv.input[r][2]
        /\ (transformation = TRANSLATION /\ conv.kind = "compact" /\ ~IsNone(conv.mid)) =>
              Val(Val(conv.mid).val) = <<<<1, 0, conv.input[1][1]>>,
                                         <<0, 1, conv.input[2][1]>>, <<0, 0, 1>>>>

\* an affine matrix whose three columns differ has gone to the short form and back
C9_Witness ==
    /\ transformation = AFFINE
    /\ conv.kind = "canonical"
    /\ conv.input = <<<<-1, 0, 1>>, <<1, -1, 0>>, <<0, 0, 1>>>>
    /\ ~IsNone(conv.mid)
    /\ Val(Val(conv.mid).val) = <<<<1, -1, 0>>, <<0, 1, -1>>>>
    /\ ~IsNone(conv.back)

----------------------------------------------------------------------------
(* Properties of the single-pair registrar (Spec) *)

Finished(op) == pc = "idle" /\ call.op = op

\* C5: transform(mov) without a matrix fails with "Register first" exactly
\* when no register call has returned normally before (a register call that
\* failed, or a set_matrix call, does not count); after a successful register
\* it passes the stored matrix to the engine.
C5_RegisterFirstIffNoSuccessfulRegister ==
    (Finished("transform") /\ IsNone(call.tmat)) =>
        /\ (result = Raise(RegisterFirst)) <=> ~registered_ok
        /\ registered_ok => (Len(log) = 1 /\ log[1].tmat = m)

\* C8: for Bilinear, get_matrix(), set_matrix(m) and transform(mov, m) raise
\* the unsupported-representation error, and register() returns normally
\* whenever the engine call succeeds.
C8_BilinearRegisterSucceeds ==
    transformation = BILINEAR =>
        /\ Finished("get_matrix") => result = Raise(BilinearNotSupported)
        /\ Finished("set_matrix") => result = Raise(BilinearNotSupported)
        /\ (Finished("transform") /\ ~IsNone(call.tmat)) =>
              result = Raise(BilinearNotSupported)
        /\ (Finished("register") /\ log[1].ok) => ~Raised(result)

----------------------------------------------------------------------------
(* Properties of register_stack (SpecStack) *)

\* the register_stack call has returned its matrix stack
Returned == Finished("register_stack") /\ ~Raised(result)

\* the input stack's frame count along the registration axis
InputFrames == call.img.shape[call.axis + 1]

\* the log entries of frame i
EntriesOf(i) == {k \in 1..Len(log) : log[k].i = i}

\* C1: when a register_stack run returns, under 'previous' the matrix stored at
\* every index i > 0 is (the matrix returned by registering frame i against
\* frame i-1 of the working stack) x (the matrix stored at index i-1), in that
\* order; under 'first' and 'mean' it is the matrix that frame's registration
\* returned.
C1_CompositionLaw ==
    (Returned /\ call.reference \in ReferenceModes) =>
        \A i \in 1..(Len(Val(tmats)) - 1) :
            /\ Cardinality(EntriesOf(i)) = 1
            /\ \A k \in EntriesOf(i) :
                  /\ log[k].mov = Val(Frame(loc.img, i, call.axis).val)
                  /\ call.reference = "previous" =>
                        /\ log[k].ref = Val(Frame(loc.img, i - 1, call.axis).val)
                        /\ Val(tmats)[i + 1] =
                              MatMul(Val(log[k].out.val), Val(tmats)[i])
                  /\ call.reference # "previous" =>
                        Val(tmats)[i + 1] = Val(log[k].out.val)

\* a 'previous' run over three frames has returned, and at index 2 the product
\* taken in the other order would have given another matrix
C1_Witness ==
    /\ Returned
    /\ call.reference = "previous"
    /\ call.moving_average = 1
    /\ Len(Val(tmats)) = 3
    /\ \E k \in EntriesOf(2) :
          /\ Val(tmats)[3] = MatMul(Val(log[k].out.val), Val(tmats)[2])
          /\ Val(tmats)[3] # MatMul(Val(tmats)[2], Val(log[k].out.val))
          /\ Val(tmats)[2] # Identity3

\* C2: under 'previous' frame 0 is never registered, and the matrix at index 0
\* of the returned stack is the identity, whatever moving_average is.
C2_FirstMatrixIdentity ==
    (call.op = "register_stack" /\ call.reference = "previous") =>
        /\ EntriesOf(0) = {}
        /\ Returned => Val(result.val)[1] = Identity3

\* C3: register_stack returns as many matrices as the input stack has frames
\* along the registration axis, and the working stack has the input's shape.
C3_LengthInvariant ==
    call.op = "register_stack" =>
        /\ Returned => Len(Val(result.val)) = InputFrames
        /\ ~IsNone(loc) => loc.img.shape = call.img.shape

\* C4: a register_stack call on an array that is not 3-D, or with a reference
\* that is no reference mode, ends with an error, with no frame registered and
\* the stored matrix stack untouched (the registrar had none before the call).
C4_ValidationFirst ==
    (Finished("register_stack")
        /\ (ndim(call.img) # 3 \/ call.reference \notin ReferenceModes)) =>
        /\ Raised(result)
        /\ log = <<>>
        /\ IsNone(tmats)

\* the stored stack holds matrices computed by the run beside entries that no
\* registration has filled
HalfPopulated ==
    /\ ~IsNone(tmats)
    /\ \E k \in 1..Len(log) : ~Raised(log[k].out)
    /\ \E j \in 1..Len(Val(tmats)) : EntriesOf(j - 1) = {} \/
                                     \A k \in EntriesOf(j - 1) : Raised(log[k].out)

\* C6: when a frame's registration fails, register_stack ends with that very
\* error, returns no stack, and the registrar's stored stack is not left
\* half-populated by the failed run.
C6_NoHalfPopulatedStack ==
    (Finished("register_stack") /\ Len(log) > 0 /\ Raised(log[Len(log)].out)) =>
        /\ result = log[Len(log)].out
        /\ ~HalfPopulated

\* C7: the static reference is, under 'first', the mean of the first n_frames
\* frames along the registration axis and, under 'mean', the mean of all frames
\* along the registration axis; under 'mean' the loop starts at 0 and a run
\* that returns has registered every frame 0..last once, in increasing order;
\* under 'previous'/'first' with moving_average <= 1 the loop starts at 1 and
\* frame 0 is not registered.
C7_StaticReference ==
    (call.op = "register_stack" /\ ~IsNone(loc)) =>
        /\ call.reference = "first" =>
              loc.ref = Some(mean(Val(take_range(loc.img, call.n_frames, call.axis).val),
                                  call.axis))
        /\ call.reference = "mean" =>
              /\ loc.ref = Some(mean(loc.img, call.axis))
              /\ loc.idx_start = 0
              /\ \A k \in 1..Len(log) : log[k].i = k - 1 /\ log[k].ref = Val(loc.ref)
              /\ Returned => Len(log) = loc.img.shape[call.axis + 1]
        /\ (call.reference \in {"previous", "first"} /\ call.moving_average <= 1) =>
              /\ loc.idx_start = 1
              /\ EntriesOf(0) = {}

----------------------------------------------------------------------------
(* Properties of transform_stack (SpecApply) *)

\* the matrix stack a finished transform_stack call worked with
UsedStack == IF IsNone(call.tmats) THEN tmats ELSE call.tmats

\* C10: transform_stack uses the stored stack when none is supplied; it fails
\* with the length-mismatch error, before any frame is warped, when the count
\* of matrices differs from the frame count or no stack was ever stored; when
\* the counts match (and the family has a canonical form) it warps every frame
\* with the matrix at the same index until the engine fails, whether or not
\* register was called before.
C10_TransformStackContract ==
    Finished("transform_stack") =>
        LET n == call.img.shape[call.axis + 1]
            mismatch == IsNone(UsedStack) \/ Len(Val(UsedStack)) # n
        IN  /\ mismatch => (result = Raise(LengthMismatch) /\ log = <<>>)
            /\ (~mismatch /\ transformation # BILINEAR) =>
                  /\ \A k \in 1..Len(log) :
                        /\ log[k].i = k - 1
                        /\ log[k].engine.mov =
                              Val(simple_slice(call.img, k - 1, call.axis).val)
                        /\ log[k].engine.tmat =
                              Some(Val(matrix_long_to_short(transformation,
                                          Val(UsedStack)[k]).val))
                  /\ (\A k \in 1..Len(log) : log[k].engine.ok) =>
                        (~Raised(result) /\ Len(log) = n)

====
